---- MODULE Spec2Model ----
(***************************************************************************)
(* A model of fetch_a_stock_kline.py: the retry wrapper, the adjustment    *)
(* factor derivation, the bar fetcher, the parquet persistence and the     *)
(* orchestrator loop of main().                                            *)
(*                                                                         *)
(* Dates are day numbers 1, 2, ...; a YYYYMMDD string is the 8-digit       *)
(* number strftime(d).  A float is a reduced fraction [num, den]; den = 0 *)
(* encodes NaN (num = 0) and the infinities (num = 1, -1).  A table is a   *)
(* sequence of rows; a raw or adjusted series is a sequence of             *)
(* [date, close].  An Optional is <<>> (None) or <<x>>.                    *)
(***************************************************************************)
EXTENDS Integers, Sequences, FiniteSets, TLC

\* ----------------------------------------------------------------- bounds
\* Trading days the provider and the persisted tables range over.
MaxDay == 3
\* Rows of a table handed to save_to_parquet by the persistence harness.
MaxRows == 2

\* ------------------------------------------------------ program constants
MAX_RETRIES == 3
\* REQUEST_DELAY = 0.5 s, counted in tenths of a second.
REQUEST_DELAY == 5

Days == 1..MaxDay
None == <<>>
Some(x) == <<x>>

\* ------------------------------------------------------------------ dates
\* latest_date.strftime('%Y%m%d'): day 1 is 2023-12-30, so that day numbers
\* cross a month and a year boundary.
strftime(d) ==
    IF d = 1 THEN 20231230
    ELSE IF d = 2 THEN 20231231
    ELSE 20240101 + (d - 3)

\* datetime.strptime(s, '%Y%m%d')
strptime(s) == CHOOSE d \in 1..(MaxDay + 2) : strftime(d) = s

RECURSIVE Pow10(_)
Pow10(n) == IF n = 0 THEN 1 ELSE 10 * Pow10(n - 1)

\* The characters of an 8-character date string.
Digits(s) == [i \in 1..8 |-> (s \div Pow10(8 - i)) % 10]

\* Python's str > str on two date strings: lexicographic on the characters.
StrGreater(a, b) ==
    \E i \in 1..8 : /\ Digits(a)[i] > Digits(b)[i]
                    /\ \A j \in 1..(i - 1) : Digits(a)[j] = Digits(b)[j]

\* A faulty variant of NextDayString: the timedelta is forgotten.
NextDayString_same(latest) == latest

\* (strptime(latest) + timedelta(days=1)).strftime('%Y%m%d')
NextDayString(latest) == strftime(strptime(latest) + 1)

\* ----------------------------------------------------------------- floats
RECURSIVE GCD(_, _)
GCD(a, b) == IF b = 0 THEN a ELSE GCD(b, a % b)

Abs(a) == IF a < 0 THEN -a ELSE a
Sign(a) == IF a > 0 THEN 1 ELSE IF a < 0 THEN -1 ELSE 0

NaN == [num |-> 0, den |-> 0]
One == [num |-> 1, den |-> 1]

\* numpy's a / b on floats: x/0 is inf, -inf or nan, never an exception.
Div(a, b) ==
    IF b = 0 THEN [num |-> Sign(a), den |-> 0]
    ELSE LET g == GCD(Abs(a), Abs(b))
             s == Sign(b)
         IN  [num |-> (s * a) \div g, den |-> (s * b) \div g]

IsNull(f) == f.num = 0 /\ f.den = 0
Positive(f) == f.num > 0

\* ----------------------------------------------------------------- tables
Dates(t) == {t[i].date : i \in 1..Len(t)}

StrictlyIncreasing(t) == \A i \in 1..(Len(t) - 1) : t[i].date < t[i + 1].date

MaxDate(t) == CHOOSE d \in Dates(t) : \A e \in Dates(t) : e <= d

\* The last row of t with date d.
LastRow(t, d) ==
    t[CHOOSE i \in 1..Len(t) :
        /\ t[i].date = d
        /\ \A j \in (i + 1)..Len(t) : t[j].date # d]

RECURSIVE KeepFirstFrom(_, _)
KeepFirstFrom(t, i) ==
    IF i > Len(t) THEN <<>>
    ELSE (IF \A j \in 1..(i - 1) : t[j].date # t[i].date THEN <<t[i]>> ELSE <<>>)
         \o KeepFirstFrom(t, i + 1)

\* A faulty variant of drop_duplicates: keep='first'.
drop_duplicates_first(t) == KeepFirstFrom(t, 1)

\* A faulty variant of drop_duplicates: without inplace=True the call changes nothing.
drop_duplicates_skipped(t) == t

RECURSIVE KeepLastFrom(_, _)
\* The rows t[i], i >= from, that no later row of t repeats the date of.
KeepLastFrom(t, i) ==
    IF i > Len(t) THEN <<>>
    ELSE (IF \A j \in (i + 1)..Len(t) : t[j].date # t[i].date THEN <<t[i]>> ELSE <<>>)
         \o KeepLastFrom(t, i + 1)

\* df.drop_duplicates(subset=['date'], keep='last')
drop_duplicates(t) == KeepLastFrom(t, 1)

\* The place of row i of t in ascending order of date, rows of one date in
\* the order they have in t.
Rank(t, i) ==
    Cardinality({j \in 1..Len(t) :
                    \/ t[j].date < t[i].date
                    \/ t[j].date = t[i].date /\ j <= i})

\* df.sort_values('date'): ascending by date.
sort_values(t) ==
    [k \in 1..Len(t) |-> t[CHOOSE i \in 1..Len(t) : Rank(t, i) = k]]

\* ------------------------------------------------------------ persistence
Absent == [kind |-> "absent", rows |-> <<>>]
Corrupt == [kind |-> "corrupt", rows |-> <<>>]
Table(t) == [kind |-> "table", rows |-> t]

\* A faulty variant of save_to_parquet: a file that cannot be read is removed.
save_to_parquet_removing(file, df, mode) ==
    IF mode = "append" /\ file.kind # "absent"
    THEN IF file.kind = "corrupt"
         THEN [raised |-> TRUE, file |-> Absent]
         ELSE [raised |-> FALSE,
               file |-> Table(sort_values(drop_duplicates(file.rows \o df)))]
    ELSE [raised |-> FALSE, file |-> Table(df)]

\* A faulty variant of save_to_parquet: the mode is ignored, the file replaced.
save_to_parquet_replacing(file, df, mode) == [raised |-> FALSE, file |-> Table(df)]

\* save_to_parquet(df, symbol, mode) on the file of that symbol: the file it
\* leaves, and whether pd.read_parquet raised.
save_to_parquet(file, df, mode) ==
    IF mode = "append" /\ file.kind # "absent"
    THEN IF file.kind = "corrupt"
         THEN [raised |-> TRUE, file |-> file]
         ELSE [raised |-> FALSE,
               file |-> Table(sort_values(drop_duplicates(file.rows \o df)))]
    ELSE [raised |-> FALSE, file |-> Table(df)]

\* A faulty variant of check_existing_data: the date of the first row, not the max.
check_existing_data_first(file) ==
    IF file.kind # "table" \/ file.rows = <<>> THEN None
    ELSE Some(strftime(file.rows[1].date))

\* check_existing_data(symbol): the latest date string, or None.
check_existing_data(file) ==
    IF file.kind = "absent" THEN None
    ELSE IF file.kind = "corrupt" THEN None
    ELSE IF file.rows = <<>> THEN None
    ELSE Some(strftime(MaxDate(file.rows)))

\* --------------------------------------------------------------- provider
\* A remote query either raises or returns a series.
Fail == [ok |-> FALSE, rows |-> <<>>]
Reply(rows) == [ok |-> TRUE, rows |-> rows]

RECURSIVE SeriesOver(_, _, _)
\* Every date-indexed series on days of lo..hi with closing prices of C: at
\* most one row per day, ascending.
SeriesOver(lo, hi, C) ==
    IF lo > hi THEN {<<>>}
    ELSE LET rest == SeriesOver(lo + 1, hi, C)
         IN  rest \cup { <<[date |-> lo, close |-> c]>> \o t : c \in C, t \in rest }

\* The series with close c on every day of lo..hi.
FullSeries(lo, hi, c) ==
    IF lo > hi THEN <<>>
    ELSE [i \in 1..(hi - lo + 1) |-> [date |-> lo + i - 1, close |-> c]]

\* The first and last day a query for start..end (inclusive) covers.
RangeLo(start) == strptime(start)
RangeHi(end) == IF strptime(end) > MaxDay THEN MaxDay ELSE strptime(end)

\* ------------------------------------------------------- fetch_adj_factor
\* The body of fetch_adj_factor's fetch() after its two queries returned:
\* None, a factor table, or the ValueError numpy or pandas raises when the
\* two close arrays cannot be divided or the result does not fit the dates.
AdjCompute(qfq, raw) ==
    IF qfq = <<>> \/ raw = <<>>
    THEN [kind |-> "none", rows |-> <<>>]
    ELSE IF Len(qfq) = Len(raw)
    THEN [kind |-> "df",
          rows |-> [i \in 1..Len(raw) |->
                       [date |-> raw[i].date,
                        adj_factor |-> Div(qfq[i].close, raw[i].close)]]]
    ELSE IF Len(qfq) = 1
    THEN [kind |-> "df",
          rows |-> [i \in 1..Len(raw) |->
                       [date |-> raw[i].date,
                        adj_factor |-> Div(qfq[1].close, raw[i].close)]]]
    ELSE [kind |-> "raise", rows |-> <<>>]

\* ------------------------------------------------------ fetch_kline_daily
\* A faulty variant of DefaultAdj: the default factor is 0.0.
DefaultAdj_zero(kline) ==
    [i \in 1..Len(kline) |->
        [date |-> kline[i].date, adj_factor |-> [num |-> 0, den |-> 1]]]

\* The constant 1.0 table on the dates of df_kline.
DefaultAdj(kline) ==
    [i \in 1..Len(kline) |-> [date |-> kline[i].date, adj_factor |-> One]]

RECURSIVE MatchesFrom(_, _, _)
\* The rows of the left row joined with each row of adj, from index j on,
\* that has its date.
MatchesFrom(row, adj, j) ==
    IF j > Len(adj) THEN <<>>
    ELSE (IF adj[j].date = row.date
          THEN <<[date |-> row.date, close |-> row.close,
                  adj_factor |-> adj[j].adj_factor]>>
          ELSE <<>>) \o MatchesFrom(row, adj, j + 1)

RECURSIVE MergeLeftFrom(_, _, _)
MergeLeftFrom(kline, adj, i) ==
    IF i > Len(kline) THEN <<>>
    ELSE (IF MatchesFrom(kline[i], adj, 1) = <<>>
          THEN <<[date |-> kline[i].date, close |-> kline[i].close,
                  adj_factor |-> NaN]>>
          ELSE MatchesFrom(kline[i], adj, 1)) \o MergeLeftFrom(kline, adj, i + 1)

RECURSIVE MergeInnerFrom(_, _, _)
MergeInnerFrom(kline, adj, i) ==
    IF i > Len(kline) THEN <<>>
    ELSE MatchesFrom(kline[i], adj, 1) \o MergeInnerFrom(kline, adj, i + 1)

\* A faulty variant of merge_left: how='inner'.
merge_inner(kline, adj) == MergeInnerFrom(kline, adj, 1)

\* df_kline.merge(df_adj[['date', 'adj_factor']], on='date', how='left')
merge_left(kline, adj) == MergeLeftFrom(kline, adj, 1)

RECURSIVE FFillFrom(_, _, _)
FFillFrom(t, i, last) ==
    IF i > Len(t) THEN <<>>
    ELSE LET f == IF IsNull(t[i].adj_factor) THEN last ELSE t[i].adj_factor
         IN  <<[t[i] EXCEPT !.adj_factor = f]>> \o FFillFrom(t, i + 1, f)

\* df_result['adj_factor'].ffill()
ffill(t) == FFillFrom(t, 1, NaN)

\* df_result['adj_factor'].fillna(1.0)
fillna(t) ==
    [i \in 1..Len(t) |->
        IF IsNull(t[i].adj_factor) THEN [t[i] EXCEPT !.adj_factor = One] ELSE t[i]]

\* Lines 150-176 of fetch_kline_daily: the table it returns for the raw
\* series df_kline and the outcome adj of fetch_adj_factor.
BuildResult(symbol, kline, adj) ==
    LET df_adj == IF adj.kind = "none" \/ adj.rows = <<>>
                  THEN DefaultAdj(kline) ELSE adj.rows
        filled == fillna(ffill(merge_left(kline, df_adj)))
    IN  [i \in 1..Len(filled) |->
            [date |-> filled[i].date, symbol |-> symbol,
             close |-> filled[i].close, adj_factor |-> filled[i].adj_factor]]

\* A faulty variant of NoData: the emptiness check is missing.
NoData_never(rows) == FALSE

\* "df is None or df.empty" (lines 145 and 304): nothing was returned.
NoData(rows) == rows = <<>>

\* ---------------------------------------------------------- retry_on_error
\* A faulty variant of IsLastAttempt: attempt == max_retries.
IsLastAttempt_late(attempt) == attempt = MAX_RETRIES

\* attempt == max_retries - 1: the failure is re-raised.
IsLastAttempt(attempt) == attempt = MAX_RETRIES - 1

\* A faulty variant of BackoffDelay: the same delay after every failure.
BackoffDelay_flat(attempt) == REQUEST_DELAY

\* time.sleep(delay * (attempt + 1)) before the next attempt.
BackoffDelay(attempt) == REQUEST_DELAY * (attempt + 1)

\* ------------------------------------------------------------------ state
VARIABLES
    args,           \* the parsed command line: update, start_date, end_date
    stock_list,     \* the symbols of the run, in listing order
    files,          \* KLINE_DIR: the parquet file of every symbol
    files0,         \* KLINE_DIR as the run found it
    idx,            \* position of the loop of main() in stock_list
    success_count,
    failed_stocks,
    printed,        \* the per-instrument lines main() and the fetcher print
    report,         \* the totals of the final report, once printed
    pc,             \* where the control flow stands
    start_date,     \* main()'s start_date for the current instrument
    attempt,        \* the retry wrapper's loop variable
    sleeps,         \* the delays the last wrapper call of the current
                    \* instrument has slept
    df_kline,       \* fetch_kline_daily's raw series
    df_qfq,         \* the adjusted series of the attempt that returned
    df,             \* the table fetch_kline_daily returned
    issued,         \* remote queries issued for the current instrument, by
                    \* kind, and what fetch_daily_data's last query answered
    lastSave        \* the last save_to_parquet call: arguments and effect

vars == <<args, stock_list, files, files0, idx, success_count, failed_stocks,
          printed, report, pc, start_date, attempt, sleeps, df_kline, df_qfq,
          df, issued, lastSave>>

SymbolSet == {"000001", "000002"}

Symbol == stock_list[idx]

save_mode == IF args.update THEN "append" ELSE "overwrite"

\* Lines 289-299 of main(): the start date of the fetch, or the skip.
ResolveStart(a, file) ==
    LET latest_date == IF a.update THEN check_existing_data(file) ELSE None
        start == IF latest_date # None
                 THEN NextDayString(latest_date[1]) ELSE a.start_date
    IN  [start |-> start,
         skip |-> latest_date # None /\ StrGreater(start, a.end_date)]

NoQueries == [raw |-> 0, qfq |-> 0, raw_reply |-> "none"]

\* What a reply of the provider is: a failure, no row, or rows.
ReplyKind(resp) ==
    IF ~resp.ok THEN "fail" ELSE IF resp.rows = <<>> THEN "empty" ELSE "rows"

Line(msg) == [symbol |-> Symbol, msg |-> msg]

\* The next iteration of the for loop; the fetcher's locals are gone.
NextInstrument ==
    /\ idx' = idx + 1
    /\ pc' = "loop"
    /\ attempt' = 0
    /\ df_kline' = <<>>
    /\ df_qfq' = None

\* A faulty variant of Except: no try/except, the exception leaves the loop.
Except_raise(err) ==
    /\ pc' = "crashed"
    /\ UNCHANGED <<failed_stocks, printed, idx, attempt, df_kline, df_qfq,
                   success_count, df>>

\* A faulty variant of Except: "except Exception: pass", nothing is recorded.
Except_silent(err) ==
    /\ failed_stocks' = failed_stocks
    /\ printed' = printed
    /\ NextInstrument
    /\ UNCHANGED <<success_count, df>>

\* Lines 316-318: the except clause of the loop body.
Except(err) ==
    /\ failed_stocks' = Append(failed_stocks, [symbol |-> Symbol, error |-> err])
    /\ printed' = Append(printed, Line("failed"))
    /\ NextInstrument
    /\ UNCHANGED <<success_count, df>>

\* Lines 47-51 of the wrapper, after the attempt raised err: re-raise from
\* the last attempt, else sleep and try again; slept are the delays of this
\* wrapper call so far.
Retry(err, slept) ==
    IF IsLastAttempt(attempt)
    THEN Except(err) /\ sleeps' = slept
    ELSE /\ attempt' = attempt + 1
         /\ sleeps' = Append(slept, BackoffDelay(attempt))
         /\ UNCHANGED <<idx, pc, df_kline, df_qfq, failed_stocks, printed,
                        success_count, df>>

\* ---------------------------------------------------------------- actions
\* A faulty variant of SkipUpToDate: the skip is not counted.
SkipUpToDate_uncounted ==
    /\ pc = "loop" /\ idx <= Len(stock_list)
    /\ ResolveStart(args, files[Symbol]).skip
    /\ start_date' = ResolveStart(args, files[Symbol]).start
    /\ printed' = Append(printed, Line("skip"))
    /\ success_count' = success_count
    /\ issued' = NoQueries
    /\ sleeps' = <<>>
    /\ NextInstrument
    /\ UNCHANGED <<args, stock_list, files, files0, failed_stocks, report, df,
                   lastSave>>

\* Lines 284-299: the instrument is already current and is skipped.
SkipUpToDate ==
    /\ pc = "loop" /\ idx <= Len(stock_list)
    /\ ResolveStart(args, files[Symbol]).skip
    /\ start_date' = ResolveStart(args, files[Symbol]).start
    /\ printed' = Append(printed, Line("skip"))
    /\ success_count' = success_count + 1
    /\ issued' = NoQueries
    /\ sleeps' = <<>>
    /\ NextInstrument
    /\ UNCHANGED <<args, stock_list, files, files0, failed_stocks, report, df,
                   lastSave>>

\* Lines 284-302: the start date is resolved and fetch_kline_daily called.
StartFetch ==
    /\ pc = "loop" /\ idx <= Len(stock_list)
    /\ ~ResolveStart(args, files[Symbol]).skip
    /\ start_date' = ResolveStart(args, files[Symbol]).start
    /\ pc' = "fetch_daily"
    /\ attempt' = 0
    /\ sleeps' = <<>>
    /\ issued' = NoQueries
    /\ UNCHANGED <<args, stock_list, files, files0, idx, success_count,
                   failed_stocks, printed, report, df_kline, df_qfq, df, lastSave>>

\* One attempt of the wrapped fetch_daily_data (lines 42-51, 131-146, and on
\* None lines 304-307 of main()); resp is the provider's answer.
FetchDailyAttempt(resp) ==
    /\ pc = "fetch_daily"
    /\ issued' = [issued EXCEPT !.raw = @ + 1, !.raw_reply = ReplyKind(resp)]
    /\ IF ~resp.ok
       THEN Retry("RemoteError", sleeps)
       ELSE IF NoData(resp.rows)
       THEN /\ failed_stocks' =
                   Append(failed_stocks, [symbol |-> Symbol, error |-> "no data"])
            /\ printed' = Append(printed, Line("no data"))
            /\ df' = <<>>
            /\ sleeps' = Append(sleeps, REQUEST_DELAY)
            /\ NextInstrument
            /\ UNCHANGED success_count
       ELSE /\ df_kline' = resp.rows
            /\ pc' = "fetch_adj"
            /\ attempt' = 0
            /\ sleeps' = Append(sleeps, REQUEST_DELAY)
            /\ UNCHANGED <<idx, df_qfq, failed_stocks, printed, success_count, df>>
    /\ UNCHANGED <<args, stock_list, files, files0, report, start_date, lastSave>>

\* One attempt of fetch_adj_factor's wrapped fetch() (lines 94-115), and on
\* its return lines 150-176; q and r answer the adjusted and the raw query.
FetchAdjAttempt(q, r) ==
    /\ pc = "fetch_adj"
    /\ LET before == IF attempt = 0 THEN <<>> ELSE sleeps
           adj == AdjCompute(q.rows, r.rows)
       IN  IF ~q.ok
           THEN /\ issued' = [issued EXCEPT !.qfq = @ + 1]
                /\ Retry("RemoteError", before)
           ELSE /\ issued' = [issued EXCEPT !.qfq = @ + 1, !.raw = @ + 1]
                /\ IF ~r.ok
                   THEN Retry("RemoteError", before)
                   ELSE IF adj.kind = "raise"
                   THEN Retry("ValueError", before)
                   ELSE /\ df_qfq' = Some(q.rows)
                        /\ df' = BuildResult(Symbol, df_kline, adj)
                        /\ printed' = IF adj.kind = "none"
                                      THEN Append(printed, Line("warning"))
                                      ELSE printed
                        /\ sleeps' = Append(before, REQUEST_DELAY)
                        /\ pc' = "save"
                        /\ UNCHANGED <<idx, attempt, df_kline, failed_stocks,
                                       success_count>>
    /\ UNCHANGED <<args, stock_list, files, files0, report, start_date, lastSave>>

\* Lines 304-314: an empty table is recorded as no data; any other is saved
\* and the success counted.
Save ==
    /\ pc = "save"
    /\ IF NoData(df)
       THEN /\ failed_stocks' =
                   Append(failed_stocks, [symbol |-> Symbol, error |-> "no data"])
            /\ printed' = Append(printed, Line("no data"))
            /\ NextInstrument
            /\ UNCHANGED <<files, lastSave, success_count, df>>
       ELSE LET res == save_to_parquet(files[Symbol], df, save_mode)
            IN  /\ lastSave' = Some([symbol |-> Symbol, mode |-> save_mode,
                                     df |-> df, before |-> files[Symbol],
                                     raised |-> res.raised])
                /\ files' = [files EXCEPT ![Symbol] = res.file]
                /\ IF res.raised
                   THEN Except("ReadError")
                   ELSE /\ success_count' = success_count + 1
                        /\ printed' = Append(printed, Line("success"))
                        /\ NextInstrument
                        /\ UNCHANGED <<failed_stocks, df>>
    /\ UNCHANGED <<args, stock_list, files0, report, start_date, issued, sleeps>>

\* Lines 320-326: the loop is over and the report printed.
Report ==
    /\ pc = "loop" /\ idx > Len(stock_list)
    /\ report' = Some([total |-> Len(stock_list), success |-> success_count,
                       failed |-> Len(failed_stocks)])
    /\ pc' = "done"
    /\ UNCHANGED <<args, stock_list, files, files0, idx, success_count,
                   failed_stocks, printed, start_date, attempt, sleeps, df_kline,
                   df_qfq, df, issued, lastSave>>

\* ------------------------------------------------------- specifications
\* The table of symbol s a fetch of the raw series q with factor 1.0 gives.
Bars(s, q) ==
    [i \in 1..Len(q) |-> [date |-> q[i].date, symbol |-> s,
                          close |-> q[i].close, adj_factor |-> One]]

\* The files a run may find for symbol s: none, an unreadable one, an empty
\* table, or the table an earlier run left, of the days 1..d.
InitFiles(s) ==
    {Absent, Corrupt} \cup {Table(Bars(s, FullSeries(1, d, 1))) : d \in 0..MaxDay}

Locals ==
    /\ idx = 1
    /\ success_count = 0
    /\ failed_stocks = <<>>
    /\ printed = <<>>
    /\ report = None
    /\ start_date = args.start_date
    /\ attempt = 0
    /\ sleeps = <<>>
    /\ df_kline = <<>>
    /\ df_qfq = None
    /\ df = <<>>
    /\ issued = NoQueries
    /\ lastSave = None

\* main() on two symbols, in either mode, over any files.
Init ==
    /\ args \in [update : BOOLEAN,
                 start_date : {strftime(1), strftime(2)},
                 end_date : {strftime(d) : d \in 2..MaxDay}]
    /\ stock_list = <<"000001", "000002">>
    /\ files \in [SymbolSet -> UNION {InitFiles(s) : s \in SymbolSet}]
    /\ \A s \in SymbolSet : files[s] \in InitFiles(s)
    /\ files0 = files
    /\ pc = "loop"
    /\ Locals

\* The days the query of the current instrument covers.
Lo == RangeLo(start_date)
Hi == RangeHi(args.end_date)

\* The provider main() is explored under: the raw query fails, or returns
\* no row, or a bar for every day of the range.
RawReplies == {Fail, Reply(<<>>), Reply(FullSeries(Lo, Hi, 1))}

\* Its adjusted query fails, or returns no row, or the closes of every day
\* of the range (equal to the raw ones, or 0), or misses the last day.
AdjReplies ==
    {Fail, Reply(<<>>), Reply(FullSeries(Lo, Hi - 1, 1))}
    \cup {Reply(FullSeries(Lo, Hi, c)) : c \in {0, 1}}

\* The raw query of fetch_adj_factor repeats fetch_daily_data's: it fails or
\* returns the same series.
RawAgain == {Fail, Reply(df_kline)}

Next ==
    \/ SkipUpToDate
    \/ StartFetch
    \/ \E resp \in RawReplies : FetchDailyAttempt(resp)
    \/ \E q \in AdjReplies, r \in RawAgain : FetchAdjAttempt(q, r)
    \/ Save
    \/ Report

Spec == Init /\ [][Next]_vars

\* main() over the whole range of days, each file missing, unreadable,
\* holding the first day or holding every day.
InitRun ==
    /\ Init
    /\ args.start_date = strftime(1)
    /\ args.end_date = strftime(MaxDay)
    /\ \A s \in SymbolSet :
          files[s] \in {Absent, Corrupt}
                       \cup {Table(Bars(s, FullSeries(1, d, 1))) : d \in {1, MaxDay}}

\* main() runs on: the interpreter executes the next statement, and every
\* remote query returns or raises.
FairSpec == InitRun /\ [][Next]_vars /\ WF_vars(Next)

\* fetch_kline_daily under any provider: main() on one symbol, in overwrite
\* mode, with no file.
InitFetch ==
    /\ args = [update |-> FALSE, start_date |-> strftime(1),
               end_date |-> strftime(MaxDay)]
    /\ stock_list = <<"000001">>
    /\ files = [s \in SymbolSet |-> Absent]
    /\ files0 = files
    /\ pc = "loop"
    /\ Locals

\* Any raw series of the range with closes 0 or 1, any adjusted series with
\* closes 0..2.
AnyRaw == {Fail} \cup {Reply(q) : q \in SeriesOver(Lo, Hi, {0, 1})}
AnyAdj == {Fail} \cup {Reply(q) : q \in SeriesOver(Lo, Hi, {0, 1, 2})}

NextFetch ==
    \/ StartFetch
    \/ \E resp \in AnyRaw : FetchDailyAttempt(resp)
    \/ \E q \in AnyAdj, r \in RawAgain : FetchAdjAttempt(q, r)
    \/ Save
    \/ Report

SpecFetch == InitFetch /\ [][NextFetch]_vars

\* The raw query of fetch_adj_factor comes after fetch_daily_data's: it
\* fails, or returns the same series, or the bars of other days of the range.
RawLater == RawAgain \cup {Reply(q) : q \in SeriesOver(Lo, Hi, {1})}

\* Any raw series of the range with closes 1 or 2, any adjusted series with
\* close 1.
JoinRaw == {Fail} \cup {Reply(q) : q \in SeriesOver(Lo, Hi, {1, 2})}
JoinAdj == {Fail} \cup {Reply(q) : q \in SeriesOver(Lo, Hi, {1})}

\* fetch_kline_daily under a provider whose second raw answer may differ
\* from its first.
NextJoin ==
    \/ StartFetch
    \/ \E resp \in JoinRaw : FetchDailyAttempt(resp)
    \/ \E q \in JoinAdj, r \in RawLater : FetchAdjAttempt(q, r)
    \/ Save
    \/ Report

SpecJoin == InitFetch /\ [][NextJoin]_vars

\* Every table of at most n rows of symbol s, in any order, dates repeated
\* or not.
RECURSIVE Tables(_, _)
Tables(s, n) ==
    IF n = 0 THEN {<<>>}
    ELSE Tables(s, n - 1) \cup
         { Append(t, [date |-> d, symbol |-> s, close |-> c, adj_factor |-> One])
           : t \in Tables(s, n - 1), d \in Days, c \in {1, 2} }

\* save_to_parquet in append mode on any file and any table, called once and
\* then again with the same arguments.
InitSave ==
    /\ args = [update |-> TRUE, start_date |-> strftime(1),
               end_date |-> strftime(MaxDay)]
    /\ stock_list = <<"000001">>
    /\ files \in [SymbolSet -> {Absent, Corrupt}
                               \cup {Table(t) : t \in Tables("000001", MaxRows)}]
    /\ files["000002"] = Absent
    /\ files0 = files
    /\ pc = "call"
    /\ Locals

\* save_to_parquet(new, symbol, mode), lines 181-200.
SaveCall(new, mode) ==
    /\ pc = "call"
    /\ LET res == save_to_parquet(files[Symbol], new, mode)
       IN  /\ lastSave' = Some([symbol |-> Symbol, mode |-> mode, df |-> new,
                                before |-> files[Symbol], raised |-> res.raised])
           /\ files' = [files EXCEPT ![Symbol] = res.file]
    /\ df' = new
    /\ pc' = "called"
    /\ UNCHANGED <<args, stock_list, files0, idx, success_count, failed_stocks,
                   printed, report, start_date, attempt, sleeps, df_kline,
                   df_qfq, issued>>

\* The same call once more.
SaveAgain ==
    /\ pc = "called"
    /\ LET res == save_to_parquet(files[Symbol], df, lastSave[1].mode)
       IN  /\ lastSave' = Some([lastSave[1] EXCEPT !.before = files[Symbol],
                                                  !.raised = res.raised])
           /\ files' = [files EXCEPT ![Symbol] = res.file]
    /\ pc' = "called_twice"
    /\ UNCHANGED <<args, stock_list, files0, idx, success_count, failed_stocks,
                   printed, report, start_date, attempt, sleeps, df_kline,
                   df_qfq, df, issued>>

NextSave ==
    \/ \E new \in Tables("000001", MaxRows) \ {<<>>} : SaveCall(new, "append")
    \/ SaveAgain

SpecSave == InitSave /\ [][NextSave]_vars

\* The first of a sequence of --update runs on one symbol, which has no
\* file or an unreadable one.
InitRuns ==
    /\ args \in [update : {TRUE},
                 start_date : {strftime(1), strftime(2)},
                 end_date : {strftime(d) : d \in Days}]
    /\ stock_list = <<"000001">>
    /\ files \in [SymbolSet -> {Absent, Corrupt}]
    /\ files["000002"] = Absent
    /\ files0 = files
    /\ pc = "loop"
    /\ Locals

\* main() is started again with --update, on the files the last run left.
NewRun ==
    /\ pc = "done"
    /\ args' \in [update : {TRUE},
                  start_date : {strftime(1), strftime(2)},
                  end_date : {strftime(d) : d \in Days}]
    /\ files0' = files
    /\ pc' = "loop"
    /\ idx' = 1
    /\ success_count' = 0
    /\ failed_stocks' = <<>>
    /\ printed' = <<>>
    /\ report' = None
    /\ start_date' = args'.start_date
    /\ attempt' = 0
    /\ sleeps' = <<>>
    /\ df_kline' = <<>>
    /\ df_qfq' = None
    /\ df' = <<>>
    /\ issued' = NoQueries
    /\ lastSave' = None
    /\ UNCHANGED <<stock_list, files>>

\* The provider of the runs: the raw query fails or returns bars, closing
\* at 1 or 2, of any days of the range; the adjusted query fails, returns
\* no row, or the raw closes of every day of the range.
RunRaw == {Fail} \cup {Reply(q) : q \in SeriesOver(Lo, Hi, {1, 2})}
RunAdj == {Fail, Reply(<<>>), Reply(FullSeries(Lo, Hi, 1))}

NextRuns ==
    \/ SkipUpToDate
    \/ StartFetch
    \/ \E resp \in RunRaw : FetchDailyAttempt(resp)
    \/ \E q \in RunAdj, r \in RawAgain : FetchAdjAttempt(q, r)
    \/ Save
    \/ Report
    \/ NewRun

SpecRuns == InitRuns /\ [][NextRuns]_vars

\* ----------------------------------------------------------------- claims
\* The instrument the loop has just finished with.
Done == stock_list[idx - 1]
Finished == pc = "loop" /\ idx > 1

\* The last save_to_parquet call was an append that returned.
Appended ==
    /\ lastSave # None
    /\ lastSave[1].mode = "append"
    /\ ~lastSave[1].raised

\* C1: after every append save, whatever file there was before and whatever
\* the order of the new table, the table persisted for the symbol has
\* strictly increasing dates, none repeated.
C1_AppendLeavesDatesIncreasing ==
    Appended =>
        /\ files[lastSave[1].symbol].kind = "table"
        /\ StrictlyIncreasing(files[lastSave[1].symbol].rows)

\* C2: for any persisted table E and any new table N, the second of two
\* append saves of N in a row leaves the table the first one persisted.
C2_AppendTwiceIsAppendOnce ==
    (pc = "called_twice" /\ files0["000001"].kind = "table") =>
        /\ files["000001"].kind = "table"
        /\ files["000001"] = lastSave[1].before

\* C2's case: a table was there, N repeats one of its dates with another
\* row, and N was appended twice.
C2_Witness ==
    /\ pc = "called_twice"
    /\ files0["000001"].kind = "table"
    /\ \E i \in 1..Len(files0["000001"].rows), j \in 1..Len(df) :
          /\ files0["000001"].rows[i].date = df[j].date
          /\ files0["000001"].rows[i] # df[j]
    /\ Len(files["000001"].rows) > Len(df)

\* C3: an append save of N onto an existing table E persists the dates of E
\* and of N and no other; a date of N carries N's row, a date of E alone
\* carries E's row.
C3_AppendIsUnionNewestWins ==
    (Appended /\ lastSave[1].before.kind = "table") =>
        LET E == lastSave[1].before.rows
            N == lastSave[1].df
            T == files[lastSave[1].symbol].rows
        IN  /\ Dates(T) = Dates(E) \cup Dates(N)
            /\ \A i \in 1..Len(T) :
                  T[i] = IF T[i].date \in Dates(N)
                         THEN LastRow(N, T[i].date) ELSE LastRow(E, T[i].date)

\* C3's case: N was appended onto a table E that has a date of its own and
\* a date N gives another row for.
C3_Witness ==
    /\ Appended
    /\ lastSave[1].before.kind = "table"
    /\ Dates(lastSave[1].before.rows) \ Dates(lastSave[1].df) # {}
    /\ \E d \in Dates(lastSave[1].before.rows) \cap Dates(lastSave[1].df) :
          LastRow(lastSave[1].before.rows, d) # LastRow(lastSave[1].df, d)

\* The file holds a table whose latest date is on or after the day of the
\* date string end.
CurrentThrough(file, end) ==
    /\ file.kind = "table"
    /\ \E i \in 1..Len(file.rows) : strptime(end) <= file.rows[i].date

\* C4: in update mode, an instrument whose table has a latest date D with
\* the requested end date <= D is skipped as up to date: the loop goes on
\* to the next instrument, no remote query is issued and no file changes.
C4_UpToDateIsSkipped ==
    [][(/\ pc = "loop" /\ idx <= Len(stock_list)
        /\ args.update
        /\ CurrentThrough(files[Symbol], args.end_date))
       => /\ printed' = Append(printed, [symbol |-> Symbol, msg |-> "skip"])
          /\ pc' = "loop" /\ idx' = idx + 1
          /\ issued' = NoQueries
          /\ files' = files]_vars

\* C4's case: the first instrument was up to date and has been skipped.
C4_Witness ==
    /\ Finished
    /\ args.update
    /\ CurrentThrough(files0[Done], args.end_date)
    /\ printed[Len(printed)] = [symbol |-> Done, msg |-> "skip"]
    /\ issued = NoQueries

\* The fetcher has been called for the current instrument.
Fetching == pc \in {"fetch_daily", "fetch_adj", "save"}

\* The file holds at least one row.
HasRows(file) == file.kind = "table" /\ file.rows # <<>>

\* The day of the latest row of a table.
LatestDay(t) == CHOOSE d \in Days : d \in Dates(t) /\ \A e \in Dates(t) : e <= d

\* C5: the start date handed to fetch_kline_daily is the requested one in
\* overwrite mode and in update mode without prior data, and the day after
\* the latest persisted date in update mode with prior data.
C5_StartDateOfFetch ==
    Fetching =>
        start_date = IF args.update /\ HasRows(files[Symbol])
                     THEN strftime(LatestDay(files[Symbol].rows) + 1)
                     ELSE args.start_date

\* C5's case: in update mode the fetcher is called with a start date after
\* the requested one, the table holding more than one day.
C5_Witness ==
    /\ Fetching
    /\ args.update
    /\ HasRows(files[Symbol])
    /\ Len(files[Symbol].rows) > 1
    /\ start_date # args.start_date

\* C6: every row of every persisted table has a factor that is not null
\* and is greater than 0, whatever closes the provider returns.
C6_PersistedFactorsPositive ==
    \A s \in SymbolSet :
        files[s].kind = "table" =>
            \A i \in 1..Len(files[s].rows) : Positive(files[s].rows[i].adj_factor)

\* The close of the row of series q dated d.
CloseOn(q, d) == q[CHOOSE j \in 1..Len(q) : q[j].date = d].close

\* The factor the resolver is to give raw date d: adjusted close over raw
\* close where the adjusted series has d, else that of the nearest earlier
\* raw date the adjusted series has, else 1.0.
ExpectedFactor(raw, qfq, d) ==
    LET has == {e \in Dates(raw) \cap Dates(qfq) : e <= d}
        near == CHOOSE e \in has : \A g \in has : g <= e
    IN  IF has = {} THEN One ELSE Div(CloseOn(qfq, near), CloseOn(raw, near))

\* Every close of the series is a price above 0.
Priced(q) == \A i \in 1..Len(q) : q[i].close > 0

\* C7: a fetch with a non-empty raw series returns a table, and the factor
\* of every raw date is the one of ExpectedFactor (stated for series of
\* prices above 0, where the quotient is a number).
C7_FactorsFollowDates ==
    /\ (pc = "save" /\ Priced(df_kline) /\ Priced(df_qfq[1])) =>
          /\ Len(df) = Len(df_kline)
          /\ \A i \in 1..Len(df) :
                df[i].adj_factor = ExpectedFactor(df_kline, df_qfq[1], df_kline[i].date)
    /\ \A k \in 1..Len(failed_stocks) : failed_stocks[k].error # "ValueError"

\* C8: with a non-empty raw series and an empty adjusted series the fetch
\* returns one row per raw date, each with factor 1.0.
C8_EmptyAdjustedGivesOne ==
    (pc = "save" /\ df_qfq = Some(<<>>)) =>
        /\ Len(df) = Len(df_kline)
        /\ \A i \in 1..Len(df) :
              /\ df[i].date = df_kline[i].date
              /\ df[i].adj_factor = One

\* C8's case: the fetch of a raw series of several days returned after an
\* empty adjusted series.
C8_Witness ==
    /\ pc = "save"
    /\ df_qfq = Some(<<>>)
    /\ Len(df_kline) > 1
    /\ Len(df) > 1

\* The raw series came with the first query and every attempt at the
\* adjusted series failed in its own query: no raw query followed.
AdjustedQueryExhausted ==
    /\ Finished
    /\ issued.raw_reply = "rows"
    /\ issued.raw = 1
    /\ issued.qfq = MAX_RETRIES

\* C9: when the raw series was obtained and the adjusted query failed on
\* every attempt, the instrument is saved with factor 1.0 and counted a
\* success, not a failure.
C9_AdjustedFailureIsNotFatal ==
    AdjustedQueryExhausted =>
        /\ printed[Len(printed)] = [symbol |-> Done, msg |-> "success"]
        /\ \A k \in 1..Len(failed_stocks) : failed_stocks[k].symbol # Done
        /\ files[Done].kind = "table"
        /\ \A i \in 1..Len(files[Done].rows) : files[Done].rows[i].adj_factor = One

\* The raw query of the instrument just finished returned no row.
RawWasEmpty == Finished /\ issued.raw_reply = "empty"

\* C10 as stated: the instrument whose raw query returned no row is not
\* recorded as a failure.
C10_NoDataIsNoFailure ==
    RawWasEmpty => \A k \in 1..Len(failed_stocks) : failed_stocks[k].symbol # Done

\* C10, amended: when the raw query returns no row, no adjusted query is
\* issued, the fetch returns nothing, the instrument is recorded in
\* failed_stocks with the reason "no data" and not as a success, and its
\* file is as the run found it.
C10_NoDataIsRecordedAndNothingSaved ==
    RawWasEmpty =>
        /\ issued.qfq = 0
        /\ df = <<>>
        /\ printed[Len(printed)] = [symbol |-> Done, msg |-> "no data"]
        /\ failed_stocks[Len(failed_stocks)] = [symbol |-> Done, error |-> "no data"]
        /\ \A k \in 1..Len(printed) : printed[k] # [symbol |-> Done, msg |-> "success"]
        /\ files[Done] = files0[Done]

\* C10's case: in overwrite mode the raw query of an instrument that has a
\* table returned no row.
C10_Witness ==
    /\ RawWasEmpty
    /\ ~args.update
    /\ HasRows(files0[Done])

\* The line main() prints when it is done with an instrument.
IsOutcome(l) == l.msg \in {"success", "skip", "no data", "failed"}
OutcomeLines == SelectSeq(printed, IsOutcome)

\* The outcome lines that go with an entry of failed_stocks.
IsFailure(l) == l.msg \in {"no data", "failed"}
FailureLines == SelectSeq(printed, IsFailure)

\* The number of outcome lines with a message of M.
CountLines(M) ==
    Cardinality({k \in 1..Len(OutcomeLines) : OutcomeLines[k].msg \in M})

\* C11 as stated: three distinct outcomes, a skipped instrument is never
\* recorded as a success: success_count counts the instruments fetched and
\* saved, and no other.
C11_SkippedIsNoSuccess ==
    success_count = CountLines({"success"})

\* C11, amended: every instrument the loop is done with has one outcome
\* line (success, skip, no data or failed) and is recorded once, either in
\* success_count or in failed_stocks; success_count counts the saved and
\* the skipped instruments, failed_stocks holds the instruments without
\* data and the failed ones; a success was fetched and saved, a skipped
\* instrument was not fetched.
C11_OneOutcomeSkipCountsAsSuccess ==
    /\ Len(OutcomeLines) = idx - 1
    /\ \A k \in 1..Len(OutcomeLines) : OutcomeLines[k].symbol = stock_list[k]
    /\ success_count = CountLines({"success", "skip"})
    /\ Len(failed_stocks) = Len(FailureLines)
    /\ \A k \in 1..Len(failed_stocks) :
          /\ failed_stocks[k].symbol = FailureLines[k].symbol
          /\ (failed_stocks[k].error = "no data") <=> (FailureLines[k].msg = "no data")
    /\ Finished =>
          LET last == OutcomeLines[Len(OutcomeLines)]
          IN  /\ last.msg = "success" =>
                    /\ issued.raw_reply = "rows"
                    /\ Appended \/ (lastSave # None /\ lastSave[1].mode = "overwrite")
                    /\ lastSave[1].symbol = Done
                    /\ files[Done] # Absent
              /\ last.msg = "skip" => issued = NoQueries /\ files[Done] = files0[Done]

\* C11's case: the run is over, the first instrument was skipped and the
\* second failed: one success is counted and one failure listed.
C11_Witness ==
    /\ pc = "done"
    /\ OutcomeLines[1].msg = "skip"
    /\ OutcomeLines[2].msg = "failed"
    /\ report = Some([total |-> 2, success |-> 1, failed |-> 1])

\* C12: no failure of one instrument ends the run: the step that records a
\* failure goes on to the next instrument, the loop takes the instruments
\* one by one in listing order, each once, and the report is reached, with
\* every instrument of the list accounted for.
C12_NoFailureAbortsTheRun ==
    /\ [][/\ idx' \in {idx, idx + 1}
          /\ failed_stocks' # failed_stocks => (pc' = "loop" /\ idx' = idx + 1)
          /\ idx' = idx + 1 =>
                /\ idx <= Len(stock_list)
                /\ Len(OutcomeLines') = Len(OutcomeLines) + 1
                /\ OutcomeLines'[idx].symbol = stock_list[idx]
          /\ pc' = "done" => idx = Len(stock_list) + 1]_vars
    /\ <>(pc = "done" /\ report # None /\ report[1].total = Len(stock_list)
                       /\ Len(OutcomeLines) = Len(stock_list))

\* C12's case: the run reached its report after the first instrument failed
\* in its remote queries and the second in reading its file.
C12_Witness ==
    /\ pc = "done"
    /\ Len(failed_stocks) = 2
    /\ failed_stocks[1].error = "RemoteError"
    /\ failed_stocks[2].error = "ReadError"

\* The entry the except clause adds for the current instrument.
Failure(err) == [symbol |-> Symbol, error |-> err]

\* C13: a wrapped operation runs at least once and at most MAX_RETRIES
\* times; the first attempt that succeeds ends the wrapper with its result;
\* a failed attempt before the last is followed by another attempt; the
\* failure of the last attempt reaches the caller, and no value does.
C13_RetryAtMostMaxRetries ==
    /\ [](pc \in {"fetch_daily", "fetch_adj"} => attempt \in 0..(MAX_RETRIES - 1))
    /\ [](pc = "fetch_daily" =>
             /\ issued.raw = attempt
             /\ attempt > 0 => issued.raw_reply = "fail")
    /\ [](pc = "fetch_adj" =>
             /\ issued.qfq = attempt
             /\ issued.raw_reply = "rows"
             /\ issued.raw \in 1..(2 * MAX_RETRIES))
    /\ [][pc = "fetch_daily" =>
            /\ issued'.raw = issued.raw + 1
            /\ issued'.raw_reply = "rows" =>
                  (pc' = "fetch_adj" /\ df_kline' # <<>> /\ failed_stocks' = failed_stocks)
            /\ issued'.raw_reply = "empty" =>
                  (pc' = "loop" /\ failed_stocks' = Append(failed_stocks, Failure("no data")))
            /\ (issued'.raw_reply = "fail" /\ attempt < MAX_RETRIES - 1) =>
                  (pc' = pc /\ attempt' = attempt + 1 /\ failed_stocks' = failed_stocks)
            /\ (issued'.raw_reply = "fail" /\ attempt = MAX_RETRIES - 1) =>
                  /\ pc' = "loop"
                  /\ failed_stocks' = Append(failed_stocks, Failure("RemoteError"))
                  /\ df' = df /\ df_kline' = <<>>]_vars
    /\ [][pc = "fetch_adj" =>
            /\ issued'.qfq = issued.qfq + 1
            /\ \/ pc' = "save" /\ failed_stocks' = failed_stocks
               \/ /\ attempt < MAX_RETRIES - 1
                  /\ pc' = pc /\ attempt' = attempt + 1
                  /\ failed_stocks' = failed_stocks /\ df' = df
               \/ /\ attempt = MAX_RETRIES - 1
                  /\ pc' = "loop" /\ df' = df
                  /\ \/ failed_stocks' = Append(failed_stocks, Failure("RemoteError"))
                     \/ /\ failed_stocks' = Append(failed_stocks, Failure("ValueError"))
                        /\ issued'.raw = issued.raw + 1]_vars

\* C13's case: the first instrument failed after its last attempt, and the
\* raw query of the second succeeded at its second attempt.
C13_Witness ==
    /\ idx = 2
    /\ failed_stocks = <<[symbol |-> "000001", error |-> "RemoteError"]>>
    /\ pc = "fetch_adj"
    /\ attempt = 0
    /\ issued.raw = 2

\* The waits after the failed attempts 1..n: base delay times the number of
\* the attempt.
Backoffs(n) == [k \in 1..n |-> REQUEST_DELAY * k]

\* The wrapper called last has raised for the instrument just finished.
WrapperRaised ==
    /\ Finished
    /\ failed_stocks # <<>>
    /\ failed_stocks[Len(failed_stocks)].symbol = Done
    /\ failed_stocks[Len(failed_stocks)].error \in {"RemoteError", "ValueError"}

\* C17: the wrapper has waited base_delay * k after its k-th failed attempt
\* when the next attempt starts, one more base_delay when it returns after
\* a success, and nothing after the failure of its last attempt.
C17_DelaySchedule ==
    /\ pc = "fetch_daily" => sleeps = Backoffs(attempt)
    /\ (pc = "fetch_adj" /\ attempt = 0) =>
          \E n \in 0..(MAX_RETRIES - 1) :
              /\ issued.raw = n + 1
              /\ sleeps = Backoffs(n) \o <<REQUEST_DELAY>>
    /\ (pc = "fetch_adj" /\ attempt > 0) => sleeps = Backoffs(attempt)
    /\ pc = "save" => sleeps = Backoffs(attempt) \o <<REQUEST_DELAY>>
    /\ WrapperRaised => sleeps = Backoffs(MAX_RETRIES - 1)
    /\ (Finished /\ issued.raw_reply = "empty") =>
          sleeps = Backoffs(issued.raw - 1) \o <<REQUEST_DELAY>>

\* C17's case: the adjusted series came at the third attempt, after waits
\* of one and two base delays, and the wrapper waited one base delay more.
C17_Witness ==
    /\ pc = "save"
    /\ attempt = MAX_RETRIES - 1
    /\ sleeps = <<REQUEST_DELAY, 2 * REQUEST_DELAY, REQUEST_DELAY>>

\* C14: in update mode an unreadable file counts as no file: the fetch
\* starts at the requested start date, and the table it returns is saved
\* as the table of a symbol without a file is, the instrument a success.
C14_CorruptFileIsAbsentData ==
    /\ (Fetching /\ args.update /\ files[Symbol].kind = "corrupt") =>
          start_date = args.start_date
    /\ (Finished /\ args.update /\ files0[Done].kind = "corrupt"
                 /\ lastSave # None /\ lastSave[1].symbol = Done) =>
          /\ files[Done] = save_to_parquet(Absent, lastSave[1].df, "append").file
          /\ OutcomeLines[Len(OutcomeLines)] = [symbol |-> Done, msg |-> "success"]
          /\ \A k \in 1..Len(failed_stocks) : failed_stocks[k].symbol # Done

\* The instrument just finished failed by the ValueError of the division.
FailedComputing ==
    /\ Finished
    /\ failed_stocks # <<>>
    /\ failed_stocks[Len(failed_stocks)] = [symbol |-> Done, error |-> "ValueError"]

\* C15: every attempt of a retry wrapper issues one remote query, and the
\* failure of a local computation is not retried: an instrument that failed
\* by the ValueError of the factor division had its adjusted series
\* queried once.
C15_RetryWrapsOneQuery ==
    /\ [][(pc = "fetch_daily" \/ pc = "fetch_adj") =>
            issued'.raw + issued'.qfq = issued.raw + issued.qfq + 1]_vars
    /\ [](FailedComputing => issued.qfq = 1)

\* C16: a file changes only in the save of a fetched, non-empty table of
\* its own symbol, which is then a success; the step that ends an
\* instrument as skipped, without data or failed changes no file; a file
\* that exists is never removed.
C16_FilesChangeOnlyBySave ==
    [][/\ \A s \in SymbolSet :
             files'[s] # files[s] =>
                /\ pc = "save" /\ s = Symbol
                /\ df # <<>> /\ issued.raw_reply = "rows"
                /\ files'[s] = save_to_parquet(files[s], df, save_mode).file
                /\ files'[s].kind = "table"
                /\ OutcomeLines' = Append(OutcomeLines, [symbol |-> s, msg |-> "success"])
       /\ \A s \in SymbolSet : files[s].kind # "absent" => files'[s].kind # "absent"
       /\ (Len(OutcomeLines') > Len(OutcomeLines)
              /\ OutcomeLines'[Len(OutcomeLines')].msg # "success") => files' = files
      ]_vars

\* C16's case: the run saved the table of the first symbol and failed on
\* the unreadable file of the second, which is as it was.
C16_Witness ==
    /\ pc = "done"
    /\ files["000001"] # files0["000001"]
    /\ files0["000002"] = Corrupt
    /\ files["000002"] = files0["000002"]
    /\ failed_stocks = <<[symbol |-> "000002", error |-> "ReadError"]>>

\* C18: the table fetch_kline_daily returns has the rows of the raw series
\* it obtained, one for one and in their order: the date and the bar (its
\* close stands for the six columns of the bar) as the provider gave them,
\* the requested symbol on every row.
C18_OneRowPerRawDate ==
    pc = "save" =>
        /\ Len(df) = Len(df_kline)
        /\ \A i \in 1..Len(df) :
              /\ df[i].date = df_kline[i].date
              /\ df[i].close = df_kline[i].close
              /\ df[i].symbol = Symbol
        /\ StrictlyIncreasing(df)

\* C18's case: a table of every day of the range was returned whose
\* factors were derived and differ from row to row.
C18_Witness ==
    /\ pc = "save"
    /\ Len(df_kline) = MaxDay
    /\ df_qfq # None /\ df_qfq[1] # <<>>
    /\ \E i, j \in 1..Len(df) : df[i].adj_factor # df[j].adj_factor

\* C19: success_count + len(failed_stocks) is the number of instruments
\* the loop is done with, each instrument adding one to exactly one of the
\* two, and the report's success and failed add up to its total.
C19_CountsAddUp ==
    /\ [](success_count + Len(failed_stocks) = idx - 1)
    /\ [](report # None =>
             /\ report[1].total = Len(stock_list)
             /\ report[1].success + report[1].failed = report[1].total)
    /\ [][idx' # idx =>
            \/ /\ success_count' = success_count + 1
               /\ failed_stocks' = failed_stocks
            \/ /\ success_count' = success_count
               /\ Len(failed_stocks') = Len(failed_stocks) + 1
               /\ SubSeq(failed_stocks', 1, Len(failed_stocks)) = failed_stocks]_vars

\* C19's case: the report of a run with one instrument counted a success
\* and one listed as failed for having no data.
C19_Witness ==
    /\ report # None
    /\ success_count = 1
    /\ Len(failed_stocks) = 1
    /\ failed_stocks[1].error = "no data"

\* Every row of table old is in table new, and new has no other row of its
\* date.
KeepsRows(old, new) ==
    \A i \in 1..Len(old) :
        /\ \E j \in 1..Len(new) : new[j] = old[i]
        /\ \A j \in 1..Len(new) : new[j].date = old[i].date => new[j] = old[i]

\* C20: over any sequence of --update runs, the table a run found keeps
\* its dates and its rows in that run, and its latest date does not
\* decrease: what a run adds is dated after the latest date it found.
C20_UpdateRunsOnlyAdd ==
    \A s \in SymbolSet :
        files0[s].kind = "table" =>
            /\ files[s].kind = "table"
            /\ Dates(files0[s].rows) \subseteq Dates(files[s].rows)
            /\ KeepsRows(files0[s].rows, files[s].rows)
            /\ \A d \in Dates(files[s].rows) \ Dates(files0[s].rows) :
                  \A e \in Dates(files0[s].rows) : e < d
            /\ HasRows(files0[s]) =>
                  MaxDate(files[s].rows) >= MaxDate(files0[s].rows)

\* C20's case: a later run found a table with rows and added rows to it.
C20_Witness ==
    /\ pc = "done"
    /\ HasRows(files0["000001"])
    /\ Len(files["000001"].rows) > Len(files0["000001"].rows)

====
